---- MODULE Spec2Model ----
(***************************************************************************)
(* MovieData (src/movie_data_v2.py): acquisition of the CMU movie-summary  *)
(* archive, loading of its tab-separated files into three tables, and the  *)
(* five queries over the loaded tables.                                    *)
(*                                                                         *)
(* Text cells that the code slices (dates) are sequences of one-character  *)
(* strings.  A nullable cell is <<>> (pandas NaN) or <<v>>.  Heights are   *)
(* whole centimetres standing for the float metres of the data file.       *)
(***************************************************************************)
EXTENDS Integers, Sequences, FiniteSets, TLC

\* ---------------------------------------------------------------- bounds

\* Rows of a table of the data files.
MaxRows == 2

\* ------------------------------------------------------------ cell values

NaN == <<>>
Some(v) == <<v>>
IsNa(c) == c = <<>>
Val(c) == c[1]

Range(s) == {s[i] : i \in 1..Len(s)}

Digits == {"0", "1", "2", "3", "4", "5", "6", "7", "8", "9"}

DigitVal(ch) ==
    CASE ch = "0" -> 0 [] ch = "1" -> 1 [] ch = "2" -> 2 [] ch = "3" -> 3
      [] ch = "4" -> 4 [] ch = "5" -> 5 [] ch = "6" -> 6 [] ch = "7" -> 7
      [] ch = "8" -> 8 [] ch = "9" -> 9 [] OTHER -> 0

\* str[a:b] of Python, a and b zero-based, clipped to the text's length.
Slice(s, a, b) ==
    LET hi == IF b < Len(s) THEN b ELSE Len(s)
    IN  IF a >= hi THEN <<>> ELSE SubSeq(s, a + 1, hi)

\* str.isnumeric(): non-empty and every character a digit.
IsNumeric(s) == Len(s) > 0 /\ \A i \in 1..Len(s) : s[i] \in Digits

\* Every token taken for convertible.
CanInt_Any(s) == TRUE
\* int(text) of a token int() accepts; the callers test CanInt first.
CanInt(s) == IsNumeric(s)

RECURSIVE ToInt(_)
ToInt(s) ==
    IF s = <<>> THEN 0
    ELSE 10 * ToInt(SubSeq(s, 1, Len(s) - 1)) + DigitVal(s[Len(s)])

\* str.strip() on the tokens of the data: blanks at either end removed.
RECURSIVE Strip(_)
Strip(s) ==
    IF s = <<>> THEN s
    ELSE IF s[1] = " " THEN Strip(Tail(s))
    ELSE IF s[Len(s)] = " " THEN Strip(SubSeq(s, 1, Len(s) - 1))
    ELSE s

\* ------------------------------------------------------------ the data set

\* release_date / actor_date_of_birth texts of the data files.
Date_1999_05_01 == <<"1", "9", "9", "9", "-", "0", "5", "-", "0", "1">>
Date_2001 == <<"2", "0", "0", "1">>
Date_19xx == <<"1", "9", "x", "x">>
Date_1980_03_15 == <<"1", "9", "8", "0", "-", "0", "3", "-", "1", "5">>
Date_1991 == <<"1", "9", "9", "1">>
Date_19xx_0x == <<"1", "9", "x", "x", "-", "0", "x">>

ReleaseDates == {NaN, Some(Date_1999_05_01), Some(Date_2001), Some(Date_19xx)}

\* The serialized genre mapping of a movie: freebase code -> display name, in
\* the order of the text.
Drama == [code |-> "/m/07s9rl0", name |-> "Drama"]
Comedy == [code |-> "/m/01z4y", name |-> "Comedy"]

GenreMaps == {<<>>, <<Drama>>, <<Comedy, Drama>>}

\* A genres cell as read from the file: the text of a mapping.
TextCell(items) == [kind |-> "str", items |-> items]
DictCell(items) == [kind |-> "dict", items |-> items]

MovieRows ==
    {[release_date |-> d, genres |-> TextCell(g)] : d \in ReleaseDates, g \in GenreMaps}

\* The actors of the data; an actor's attributes repeat on each of the rows.
Actors ==
    { [actor_name |-> Some("x"), actor_date_of_birth |-> Some(Date_1980_03_15),
       actor_gender |-> Some("F"), actor_height_in_meters |-> Some(160)],
      [actor_name |-> Some("y"), actor_date_of_birth |-> NaN,
       actor_gender |-> Some("M"), actor_height_in_meters |-> Some(180)],
      [actor_name |-> Some("z"), actor_date_of_birth |-> Some(Date_1991),
       actor_gender |-> NaN, actor_height_in_meters |-> NaN],
      [actor_name |-> NaN, actor_date_of_birth |-> Some(Date_19xx_0x),
       actor_gender |-> Some("F"), actor_height_in_meters |-> Some(180)] }

MovieIds == {"A", "B"}

CharacterRows ==
    {[wikipedia_movie_id |-> m, actor_name |-> a.actor_name,
      actor_date_of_birth |-> a.actor_date_of_birth,
      actor_gender |-> a.actor_gender,
      actor_height_in_meters |-> a.actor_height_in_meters] :
        m \in MovieIds, a \in Actors}

\* The non-empty tables of at most n rows (read_csv rejects an empty file).
Tables(S, n) == UNION {[1..k -> S] : k \in 1..n}

OneMovie == <<[release_date |-> Some(Date_1999_05_01), genres |-> TextCell(<<Drama>>)]>>
OneCharacter ==
    <<[wikipedia_movie_id |-> "A", actor_name |-> Some("x"),
       actor_date_of_birth |-> Some(Date_1980_03_15),
       actor_gender |-> Some("F"), actor_height_in_meters |-> Some(160)]>>

\* The contents of movie.metadata.tsv and character.metadata.tsv: one of the two
\* tables ranges over the tables of at most MaxRows rows while the other holds
\* a single row (no query reads both tables).
Datasets ==
    {[movies |-> m, characters |-> OneCharacter] : m \in Tables(MovieRows, MaxRows)}
    \cup {[movies |-> OneMovie, characters |-> c] : c \in Tables(CharacterRows, MaxRows)}

\* ------------------------------------------------------------- data frames

MovieSchema ==
    {"wikipedia_movie_id", "freebase_movie_id", "title", "release_date",
     "box_office_revenue", "runtime_min", "languages", "countries", "genres"}

CharacterSchema ==
    {"wikipedia_movie_id", "freebase_movie_id", "movie_release_date",
     "character_name", "actor_date_of_birth", "actor_gender",
     "actor_height_in_meters", "actor_ethnicity_freebase_id", "actor_name",
     "actor_age_at_movie_release", "freebase_character_or_actor_map_id",
     "freebase_character_id", "freebase_actor_id"}

PlotSchema == {"wikipedia_movie_id", "plot_summary"}

\* A field that holds no DataFrame (None).
None == [loaded |-> FALSE, cols |-> {}, rows |-> <<>>]

\* No field is taken for None.
IsNone_Never(df) == FALSE
\* self.movie_df is None, self.character_df is None
IsNone(df) == ~df.loaded

Frame(cols, rows) == [loaded |-> TRUE, cols |-> cols, rows |-> rows]

\* pd.read_csv(..., names=[...], header=None) of the three files; the rows of
\* the plot file, which no query reads, are left out.
ReadMovies(ds) == Frame(MovieSchema, ds.movies)
ReadCharacters(ds) == Frame(CharacterSchema, ds.characters)
ReadPlots(ds) == Frame(PlotSchema, <<>>)

RECURSIVE SelectSeq2(_, _)
SelectSeq2(s, keep) ==
    IF s = <<>> THEN <<>>
    ELSE IF keep[1] THEN <<s[1]>> \o SelectSeq2(Tail(s), Tail(keep))
    ELSE SelectSeq2(Tail(s), Tail(keep))

\* df[mask]: the rows whose mask is true, in the order of df.
Filter(rows, mask) == SelectSeq2(rows, mask)

\* ---------------------------------------------------------------- outcomes

\* What a call gives its caller: a result frame, or the exception raised.
Ok(cols, rows) ==
    [status |-> "ok", error |-> "", detail |-> <<>>, cols |-> cols, rows |-> rows]
RaiseWith(e, d) ==
    [status |-> "error", error |-> e, detail |-> d, cols |-> {}, rows |-> <<>>]
Raise(e) == RaiseWith(e, <<>>)

NotLoaded == "ValueError: Dataset not loaded."
MalformedNode == "ValueError: malformed node or string"
InvalidLiteral == "ValueError: invalid literal for int() with base 10"
StringIndices == "TypeError: string indices must be integers"

\* --------------------------------------------------------------- movie_type

\* ast.literal_eval: the text of a mapping becomes the mapping; a value that is
\* already a mapping is neither a string nor an AST node and raises ValueError.
LiteralEvalOk(cell) == cell.kind = "str"
LiteralEval(cell) == DictCell(cell.items)

\* column.apply(ast.literal_eval): raises when any cell does.
ApplyLiteralEvalOk(rows) == \A i \in 1..Len(rows) : LiteralEvalOk(rows[i].genres)
ApplyLiteralEval(rows) ==
    [i \in 1..Len(rows) |-> [rows[i] EXCEPT !.genres = LiteralEval(rows[i].genres)]]

\* list(x.values()) of a parsed mapping: the display names in order.
Values(cell) == [i \in 1..Len(cell.items) |-> cell.items[i].name]

RECURSIVE Flatten(_)
Flatten(lists) == IF lists = <<>> THEN <<>> ELSE Head(lists) \o Flatten(Tail(lists))

\* Counter(list): one (element, count) entry per element, in the order in which
\* the elements are first met.
RECURSIVE CounterAdd(_, _)
CounterAdd(counts, x) ==
    IF counts = <<>> THEN <<<<x, 1>>>>
    ELSE IF counts[1][1] = x THEN <<<<x, counts[1][2] + 1>>>> \o Tail(counts)
    ELSE <<counts[1]>> \o CounterAdd(Tail(counts), x)

RECURSIVE Counter(_)
Counter(list) ==
    IF list = <<>> THEN <<>>
    ELSE CounterAdd(Counter(SubSeq(list, 1, Len(list) - 1)), list[Len(list)])

\* sorted(items, key=count, reverse=True): stable, so entries of equal count keep
\* their order.
RECURSIVE InsertByCount(_, _)
InsertByCount(sorted, e) ==
    IF sorted = <<>> THEN <<e>>
    ELSE IF sorted[1][2] >= e[2] THEN <<sorted[1]>> \o InsertByCount(Tail(sorted), e)
    ELSE <<e>> \o sorted

RECURSIVE SortedByCount(_)
SortedByCount(items) ==
    IF items = <<>> THEN <<>>
    ELSE InsertByCount(SortedByCount(SubSeq(items, 1, Len(items) - 1)), items[Len(items)])

\* Counter.most_common(n) = heapq.nlargest(n, items, key=count): the first n of
\* the stable descending sort, and nothing for n <= 0.
MostCommon(counts, n) ==
    IF n <= 0 THEN <<>>
    ELSE IF n >= Len(counts) THEN SortedByCount(counts)
    ELSE SubSeq(SortedByCount(counts), 1, n)

\* N is [type, v]: isinstance(N, int) is N.type = "int".
movie_type(movie_df, N) ==
    IF N.type # "int"
    THEN [df |-> movie_df, out |-> Raise("TypeError: N must be an integer.")]
    ELSE IF IsNone(movie_df)
    THEN [df |-> movie_df, out |-> Raise(NotLoaded)]
    ELSE IF ~ApplyLiteralEvalOk(movie_df.rows)
    THEN [df |-> movie_df, out |-> Raise(MalformedNode)]
    ELSE
        LET df1 == [movie_df EXCEPT !.rows = ApplyLiteralEval(movie_df.rows)]
            all_genres == Flatten([i \in 1..Len(df1.rows) |-> Values(df1.rows[i].genres)])
            genre_counts == Counter(all_genres)
            most_common_genres == MostCommon(genre_counts, N.v)
        IN  [df |-> df1, out |-> Ok({"Movie_Type", "Count"}, most_common_genres)]

\* -------------------------------------------------------------- actor_count

RECURSIVE SortedInts(_)
SortedInts(S) ==
    IF S = {} THEN <<>>
    ELSE LET m == CHOOSE x \in S : \A y \in S : x <= y
         IN  <<m>> \o SortedInts(S \ {m})

\* The number of rows of a movie id with an actor name (count(), not nunique()).
NUnique_CountRows(rows, id) ==
    Cardinality({j \in 1..Len(rows) :
        rows[j].wikipedia_movie_id = id /\ ~IsNa(rows[j].actor_name)})
\* groupby("wikipedia_movie_id")["actor_name"].nunique(): per movie id, the
\* number of distinct non-missing actor names.
NUnique(rows, id) ==
    Cardinality({Val(rows[i].actor_name) : i \in
        {j \in 1..Len(rows) :
            rows[j].wikipedia_movie_id = id /\ ~IsNa(rows[j].actor_name)}})

actor_count(character_df) ==
    IF IsNone(character_df)
    THEN [df |-> character_df, out |-> Raise(NotLoaded)]
    ELSE
        LET rows == character_df.rows
            ids == {rows[i].wikipedia_movie_id : i \in 1..Len(rows)}
            movie_actor_counts == [id \in ids |-> NUnique(rows, id)]
            \* value_counts(): per number of actors, the number of movies
            numbers == {movie_actor_counts[id] : id \in ids}
            histogram == [k \in numbers |->
                            Cardinality({id \in ids : movie_actor_counts[id] = k})]
            sorted == SortedInts(numbers)
        IN  [df |-> character_df,
             out |-> Ok({"Number_of_Actors", "Movie_Count"},
                        [i \in 1..Len(sorted) |-> <<sorted[i], histogram[sorted[i]]>>])]

\* ------------------------------------------------------ actor_distributions

\* ["All"] + character_df["actor_gender"].dropna().unique().tolist()
RECURSIVE Unique(_)
Unique(list) ==
    IF list = <<>> THEN <<>>
    ELSE LET before == Unique(SubSeq(list, 1, Len(list) - 1))
             x == list[Len(list)]
         IN  IF x \in Range(before) THEN before ELSE Append(before, x)

HasGender(r) == ~IsNa(r.actor_gender)
GenderOf(r) == Val(r.actor_gender)

\* The accepted values as a fixed enumeration.
valid_genders_Fixed(rows) == <<"All", "F", "M">>
\* ["All"] + the distinct non-missing genders of the table, as first met.
valid_genders(rows) ==
    LET present == Filter(rows, [i \in 1..Len(rows) |-> HasGender(rows[i])])
    IN  <<"All">> \o Unique([i \in 1..Len(present) |-> GenderOf(present[i])])

\* The range test with both bounds exclusive.
HeightIn_Strict(r, lo, hi) ==
    /\ ~IsNa(r.actor_height_in_meters)
    /\ Val(r.actor_height_in_meters) > lo
    /\ Val(r.actor_height_in_meters) < hi
\* (height >= min_height) & (height <= max_height): a comparison with a missing
\* height is false.
HeightIn(r, lo, hi) ==
    /\ ~IsNa(r.actor_height_in_meters)
    /\ Val(r.actor_height_in_meters) >= lo
    /\ Val(r.actor_height_in_meters) <= hi

\* gender is [type, s]; min_height and max_height are [type, v], of type "int",
\* "float" or another.
IsNumber(x) == x.type \in {"int", "float"}

\* The range check rejecting equal bounds too.
RangeInvalid_Ge(lo, hi) == lo >= hi
\* if min_height > max_height
RangeInvalid(lo, hi) == lo > hi

actor_distributions(character_df, gender, min_height, max_height) ==
    IF gender.type # "str"
    THEN [df |-> character_df, out |-> Raise("TypeError: Gender must be a string.")]
    ELSE IF ~IsNumber(min_height) \/ ~IsNumber(max_height)
    THEN [df |-> character_df, out |-> Raise("TypeError: Height values must be numerical.")]
    ELSE IF RangeInvalid(min_height.v, max_height.v)
    THEN [df |-> character_df,
          out |-> Raise("ValueError: min_height must be less than max_height.")]
    ELSE IF IsNone(character_df)
    THEN [df |-> character_df, out |-> Raise(NotLoaded)]
    ELSE IF gender.s \notin Range(valid_genders(character_df.rows))
    THEN [df |-> character_df,
          out |-> RaiseWith("ValueError: Invalid gender. Accepted values",
                            valid_genders(character_df.rows))]
    ELSE
        LET GenderIs(r) == ~IsNa(r.actor_gender) /\ Val(r.actor_gender) = gender.s
            InRange(r) == HeightIn(r, min_height.v, max_height.v)
            rows == character_df.rows
            by_gender == IF gender.s = "All" THEN rows
                         ELSE Filter(rows, [i \in 1..Len(rows) |-> GenderIs(rows[i])])
            filtered_data == Filter(by_gender, [i \in 1..Len(by_gender) |-> InRange(by_gender[i])])
        IN  [df |-> character_df, out |-> Ok(character_df.cols, filtered_data)]

\* ----------------------------------------------------------------- releases

\* groupby(key).size(): the number of rows per value of the key column.
GroupSize(keys) ==
    [k \in Range(keys) |-> Cardinality({i \in 1..Len(keys) : keys[i] = k})]

\* astype(int) of the group keys, then sort_values: (integer key, count) rows in
\* ascending key order.  Every key is convertible when this is used.
SortedCounts(sizes) ==
    LET keys == DOMAIN sizes
        ints == SortedInts({ToInt(k) : k \in keys})
        CountOf(n) == LET k == CHOOSE k \in keys : ToInt(k) = n IN sizes[k]
    IN  [i \in 1..Len(ints) |-> <<ints[i], CountOf(ints[i])>>]

HasReleaseDate(r) == ~IsNa(r.release_date)
\* The whole release date taken as the year token.
ReleaseYear_Whole(r) == Val(r.release_date)
\* release_date.astype(str).str[:4]
ReleaseYear(r) == Slice(Val(r.release_date), 0, 4)

\* for d in x: iterating a mapping yields its keys, which are strings.
Iterate(cell) == [i \in 1..Len(cell.items) |-> [kind |-> "str", s |-> cell.items[i].code]]
\* d["name"]: defined on a mapping; a string indexed by a string raises TypeError.
SubscriptOk(d) == d.kind = "dict"
NamesOk(rows) ==
    \A i \in 1..Len(rows) : \A d \in Range(Iterate(rows[i].genres)) : SubscriptOk(d)
\* The names collected when no subscript raises.
Names(rows) ==
    UNION {{d.name : d \in {e \in Range(Iterate(rows[i].genres)) : SubscriptOk(e)}} :
            i \in 1..Len(rows)}

\* The genre branch taken on every call.
Truthy_Always(genre) == TRUE
\* genre is NaN (None) or <<text>>; "if genre:" holds for a non-empty text.
Truthy(genre) == ~IsNa(genre) /\ Val(genre) # ""

\* The count, convert and sort at the end of releases.
release_counts(df, filtered) ==
    LET sizes == GroupSize([i \in 1..Len(filtered) |-> ReleaseYear(filtered[i])])
    IN  IF \E k \in DOMAIN sizes : ~CanInt(k)
        THEN [df |-> df, out |-> Raise(InvalidLiteral)]
        ELSE [df |-> df, out |-> Ok({"release_year", "Movie_Count"}, SortedCounts(sizes))]

releases(movie_df, genre) ==
    IF IsNone(movie_df)
    THEN [df |-> movie_df, out |-> Raise(NotLoaded)]
    ELSE
        LET rows == movie_df.rows
            df1 == [movie_df EXCEPT
                        !.rows = Filter(rows, [i \in 1..Len(rows) |-> HasReleaseDate(rows[i])])]
            df2 == [df1 EXCEPT !.cols = @ \cup {"release_year"}]
        IN  IF ~Truthy(genre) THEN release_counts(df2, df2.rows)
            ELSE IF ~ApplyLiteralEvalOk(df2.rows)
            THEN [df |-> df2, out |-> Raise(MalformedNode)]
            ELSE
                LET df3 == [df2 EXCEPT !.rows = ApplyLiteralEval(df2.rows)]
                    all_genres == Names(df3.rows)
                    df4 == [df3 EXCEPT !.cols = @ \cup {"is_genre_match"}]
                    \* any(d["name"] == genre for d in x)
                    IsMatch(r) ==
                        \E d \in Range(Iterate(r.genres)) : d.name = Val(genre)
                IN  IF ~NamesOk(df3.rows)
                    THEN [df |-> df3, out |-> Raise(StringIndices)]
                    ELSE IF IsNa(genre) \/ Val(genre) \notin all_genres
                    THEN [df |-> df3,
                          out |-> RaiseWith("ValueError: Invalid genre. Choose from",
                                            all_genres)]
                    ELSE release_counts(df4, Filter(df4.rows,
                                        [i \in 1..Len(df4.rows) |-> IsMatch(df4.rows[i])]))

\* --------------------------------------------------------------------- ages

HasBirthDate(r) == ~IsNa(r.actor_date_of_birth)
\* actor_date_of_birth.astype(str).str[:4] and .str[5:7]
BirthYear(r) == Slice(Val(r.actor_date_of_birth), 0, 4)
BirthMonth(r) == Slice(Val(r.actor_date_of_birth), 5, 7)
\* No month token taken for empty.
HasBirthMonth_Any(r) == TRUE
\* birth_month.str.strip() != ""
HasBirthMonth(r) == Strip(BirthMonth(r)) # <<>>

\* The fallback taken to the month branch.
Unit_FallbackM(unit) == IF unit \notin {"Y", "M"} THEN "M" ELSE unit
\* if unit not in ["Y", "M"]: unit = "Y"
Unit(unit) == IF unit \notin {"Y", "M"} THEN "Y" ELSE unit

ages(character_df, unit) ==
    IF IsNone(character_df)
    THEN [df |-> character_df, out |-> Raise(NotLoaded)]
    ELSE
        LET rows == character_df.rows
            df1 == [character_df EXCEPT
                        !.rows = Filter(rows, [i \in 1..Len(rows) |-> HasBirthDate(rows[i])])]
            df2 == [df1 EXCEPT !.cols = @ \cup {"birth_year", "birth_month"}]
            u == Unit(unit)
        IN  IF u = "Y"
            THEN
                LET sizes == GroupSize([i \in 1..Len(df2.rows) |-> BirthYear(df2.rows[i])])
                    numeric == [k \in {t \in DOMAIN sizes : IsNumeric(t)} |-> sizes[k]]
                IN  [df |-> df2, out |-> Ok({"Year", "Birth_Count"}, SortedCounts(numeric))]
            ELSE
                LET df3 == [df2 EXCEPT !.rows = Filter(df2.rows,
                                        [i \in 1..Len(df2.rows) |-> HasBirthMonth(df2.rows[i])])]
                    sizes == GroupSize([i \in 1..Len(df3.rows) |-> BirthMonth(df3.rows[i])])
                IN  IF \E k \in DOMAIN sizes : ~CanInt(k)
                    THEN [df |-> df3, out |-> Raise(InvalidLiteral)]
                    ELSE [df |-> df3,
                          out |-> Ok({"Month", "Birth_Count"}, SortedCounts(sizes))]

\* -------------------------------------------------------------------- state

VARIABLES
    dataset,        \* what the archive at the url holds
    archive,        \* downloads/MovieSummaries.tar.gz: "absent", "partial", "complete"
    extract_dir,    \* whether downloads/MovieSummaries/ exists
    files,          \* the dataset files present under it
    pc,             \* where the construction of the current instance stands
    io,             \* what the latest step did: "transfer", "decompress", "none"
    okDone,         \* a setup run has completed
    movie_df,
    character_df,
    plot_summaries,
    raised,         \* the exception that ended the construction, if one did
    last,           \* the latest query call on the current instance
    calls           \* the calls in progress of the callers sharing the instance

vars ==
    <<dataset, archive, extract_dir, files, pc, io, okDone,
      movie_df, character_df, plot_summaries, raised, last, calls>>

fsVars == <<archive, extract_dir, files>>
dfVars == <<movie_df, character_df, plot_summaries>>

DatasetFiles == {"movie.metadata.tsv", "character.metadata.tsv", "plot_summaries.txt"}

NoOutcome == [status |-> "none", error |-> "", detail |-> <<>>, cols |-> {}, rows |-> <<>>]
NoCall ==
    [op |-> "none", args |-> <<>>, out |-> NoOutcome, again |-> FALSE, before |-> NoOutcome]

\* The sessions of the application that hold the one cached instance.
MaxCallers == 2
Callers == 1..MaxCallers
\* A caller that is in no call.
Idle == [op |-> "none", args |-> <<>>, at |-> "idle", out |-> NoOutcome]
NoCalls == [c \in Callers |-> Idle]

\* An exception of the construction: the step that raised it, its class and the
\* dataset files its message names.
NoError == [stage |-> "none", error |-> "", names |-> {}]
DownloadError == [stage |-> "download", error |-> "RequestException or OSError", names |-> {}]
ExtractError == [stage |-> "extract", error |-> "TarError or OSError", names |-> {}]
\* raise FileNotFoundError("One or more dataset files are missing. Check extraction.")
FilesMissingError == [stage |-> "load", error |-> "FileNotFoundError", names |-> {}]
\* read_csv of the absent plot file: FileNotFoundError with the path of the file.
PlotFileError ==
    [stage |-> "load", error |-> "FileNotFoundError", names |-> {"plot_summaries.txt"}]

Init ==
    /\ dataset \in Datasets
    /\ archive = "absent"
    /\ extract_dir = FALSE
    /\ files = {}
    /\ pc = "start"
    /\ io = "none"
    /\ okDone = FALSE
    /\ movie_df = None
    /\ character_df = None
    /\ plot_summaries = None
    /\ raised = NoError
    /\ last = NoCall
    /\ calls = NoCalls

\* ---------------------------------------------------------------- setup

\* MovieData(url=...): the fields take their defaults and the validator begins
\* (os.makedirs of the download directory).
NewInstance ==
    /\ pc \in {"start", "ready", "failed"}
    /\ movie_df' = None
    /\ character_df' = None
    /\ plot_summaries' = None
    /\ last' = NoCall
    /\ raised' = NoError
    /\ io' = "none"
    /\ pc' = "download_check"
    /\ UNCHANGED <<dataset, calls, fsVars, okDone>>

\* The test taken to hold of a complete archive only.
ArchiveExists_IfComplete == archive = "complete"
\* os.path.exists(filename): the file is there, whatever it holds.
ArchiveExists == archive # "absent"

\* os.path.exists(self.extract_path)
ExtractDirExists == extract_dir

\* The download with a failed request tried again within the run.
Download_Retry ==
    /\ pc = "download_check"
    /\ ~ArchiveExists
    /\ io' = "transfer"
    /\ \/ archive' = "complete" /\ pc' = "extract_check"
       \/ archive' = "partial" /\ pc' = "extract_check"
       \/ archive' = "absent" /\ pc' = "download_check"
    /\ raised' = raised
    /\ UNCHANGED <<dataset, calls, extract_dir, files, okDone, dfVars, last>>

\* _download_file: requests.get, then the chunks written to the opened file.
\* The request can fail before the file is opened, and the stream can fail
\* after; the status of the response is not looked at, so what is written
\* without an exception need not be the archive.
Download ==
    /\ pc = "download_check"
    /\ ~ArchiveExists
    /\ io' = "transfer"
    /\ \/ archive' = "complete" /\ pc' = "extract_check"
       \/ archive' = "partial" /\ pc' = "extract_check"
       \/ archive' = "absent" /\ pc' = "failed"
       \/ archive' = "partial" /\ pc' = "failed"
    /\ raised' = IF pc' = "failed" THEN DownloadError ELSE raised
    /\ UNCHANGED <<dataset, calls, extract_dir, files, okDone, dfVars, last>>

\* "Dataset already downloaded."
SkipDownload ==
    /\ pc = "download_check"
    /\ ArchiveExists
    /\ io' = "none"
    /\ pc' = "extract_check"
    /\ UNCHANGED <<dataset, calls, fsVars, okDone, dfVars, raised, last>>

\* _extract_file: tarfile.open and extractall into download_path.  A complete
\* archive unpacks MovieSummaries/ with the three files; a file that is not the
\* archive, a truncated archive or a failing write ends the extraction with
\* none or some of the members written.
Extract ==
    /\ pc = "extract_check"
    /\ ~ExtractDirExists
    /\ io' = "decompress"
    /\ \/ /\ archive = "complete"
          /\ extract_dir' = TRUE
          /\ files' = DatasetFiles
          /\ pc' = "load"
       \/ /\ extract_dir' = FALSE
          /\ files' = {}
          /\ pc' = "failed"
       \/ /\ extract_dir' = TRUE
          /\ files' \in SUBSET DatasetFiles
          /\ pc' = "failed"
    /\ raised' = IF pc' = "failed" THEN ExtractError ELSE raised
    /\ UNCHANGED <<dataset, calls, archive, okDone, dfVars, last>>

\* "Dataset already extracted."
SkipExtract ==
    /\ pc = "extract_check"
    /\ ExtractDirExists
    /\ io' = "none"
    /\ pc' = "load"
    /\ UNCHANGED <<dataset, calls, fsVars, okDone, dfVars, raised, last>>

\* _load_dataframes: the existence test covers the movie and the character
\* file; read_csv of a missing plot file raises after the first two are read.
FilesChecked == {"movie.metadata.tsv", "character.metadata.tsv"}

Load ==
    /\ pc = "load"
    /\ io' = "none"
    /\ IF FilesChecked \subseteq files
       THEN /\ movie_df' = ReadMovies(dataset)
            /\ character_df' = ReadCharacters(dataset)
            /\ IF "plot_summaries.txt" \in files
               THEN /\ plot_summaries' = ReadPlots(dataset)
                    /\ pc' = "ready"
                    /\ okDone' = TRUE
                    /\ raised' = raised
               ELSE /\ plot_summaries' = plot_summaries
                    /\ pc' = "failed"
                    /\ okDone' = okDone
                    /\ raised' = PlotFileError
       ELSE /\ pc' = "failed"
            /\ raised' = FilesMissingError
            /\ UNCHANGED <<dfVars, okDone>>
    /\ UNCHANGED <<dataset, calls, fsVars, last>>

\* ---------------------------------------------------------------- queries

\* The largest N asked of movie_type.
MaxTopN == 2

IntArg(n) == [type |-> "int", v |-> n]
StrArg(t) == [type |-> "str", s |-> t]
\* An argument of another type than the parameter's.
NotAnInt == [type |-> "str", v |-> 0]
NotAStr == [type |-> "int", s |-> ""]
NotANumber == [type |-> "str", v |-> 0]

TopNs == {NotAnInt} \cup {IntArg(n) : n \in -1..MaxTopN}

HeightArgs ==
    {<<StrArg(g), IntArg(b[1]), IntArg(b[2])>> :
        g \in {"All", "F", "M"}, b \in {<<160, 160>>, <<160, 180>>, <<180, 160>>}}
    \cup {<<NotAStr, IntArg(160), IntArg(180)>>,
          <<StrArg("All"), NotANumber, IntArg(180)>>,
          <<StrArg("All"), IntArg(180), NotANumber>>}

GenreArgs == {NaN, Some("Drama"), Some("Western")}
UnitArgs == {"Y", "M", "X"}

\* The record of a call: what was called, what it gave, and, when the call
\* before it was the same call, what that one gave.
Called(op, args, out) ==
    LET again == last.op = op /\ last.args = args
    IN  [op |-> op, args |-> args, out |-> out, again |-> again,
         before |-> IF again THEN last.out ELSE NoOutcome]

\* A query taken to be callable at any time.
Ready_Always == TRUE
\* The caller holds the instance: the constructor has returned it.
Ready == pc = "ready"

UnchangedByQuery == <<dataset, calls, fsVars, pc, io, okDone, plot_summaries, raised>>

MovieType ==
    /\ Ready
    /\ \E N \in TopNs :
        LET r == movie_type(movie_df, N)
        IN  /\ movie_df' = r.df
            /\ last' = Called("movie_type", <<N>>, r.out)
    /\ UNCHANGED <<UnchangedByQuery, character_df>>

ActorCount ==
    /\ Ready
    /\ LET r == actor_count(character_df)
       IN  /\ character_df' = r.df
           /\ last' = Called("actor_count", <<>>, r.out)
    /\ UNCHANGED <<UnchangedByQuery, movie_df>>

\* The filtered rows stored back as the character table.
ActorDistributions_Stored ==
    /\ Ready
    /\ \E a \in HeightArgs :
        LET r == actor_distributions(character_df, a[1], a[2], a[3])
        IN  /\ character_df' = IF r.out.status = "ok"
                               THEN [r.df EXCEPT !.rows = r.out.rows]
                               ELSE r.df
            /\ last' = Called("actor_distributions", a, r.out)
    /\ UNCHANGED <<UnchangedByQuery, movie_df>>

ActorDistributions ==
    /\ Ready
    /\ \E a \in HeightArgs :
        LET r == actor_distributions(character_df, a[1], a[2], a[3])
        IN  /\ character_df' = r.df
            /\ last' = Called("actor_distributions", a, r.out)
    /\ UNCHANGED <<UnchangedByQuery, movie_df>>

Releases ==
    /\ Ready
    /\ \E genre \in GenreArgs :
        LET r == releases(movie_df, genre)
        IN  /\ movie_df' = r.df
            /\ last' = Called("releases", <<genre>>, r.out)
    /\ UNCHANGED <<UnchangedByQuery, character_df>>

Ages ==
    /\ Ready
    /\ \E unit \in UnitArgs :
        LET r == ages(character_df, unit)
        IN  /\ character_df' = r.df
            /\ last' = Called("ages", <<unit>>, r.out)
    /\ UNCHANGED <<UnchangedByQuery, movie_df>>

Next ==
    \/ NewInstance
    \/ Download
    \/ SkipDownload
    \/ Extract
    \/ SkipExtract
    \/ Load
    \/ MovieType
    \/ ActorCount
    \/ ActorDistributions
    \/ Releases
    \/ Ages

Spec == Init /\ [][Next]_vars

\* MovieData.model_construct(url=...) makes an instance without running the
\* validator: nothing is downloaded and the table fields hold None until the
\* caller assigns them.  The queries are then called on it directly.
InitDirect ==
    /\ dataset \in Datasets
    /\ archive = "absent"
    /\ extract_dir = FALSE
    /\ files = {}
    /\ pc = "ready"
    /\ io = "none"
    /\ okDone = FALSE
    /\ movie_df \in {None, ReadMovies(dataset)}
    /\ character_df \in {None, ReadCharacters(dataset)}
    /\ plot_summaries = None
    /\ raised = NoError
    /\ last = NoCall
    /\ calls = NoCalls

NextDirect ==
    \/ MovieType
    \/ ActorCount
    \/ ActorDistributions
    \/ Releases
    \/ Ages

SpecDirect == InitDirect /\ [][NextDirect]_vars

\* ------------------------------------------------------- concurrent callers

\* load_data is cached with st.cache_resource: every session of the
\* application receives the same MovieData object, and the script of each
\* session runs in a thread of its own.  The callers below call movie_type
\* and ages on that object; a step is one statement of the method, run against
\* the tables as they stand when the statement is reached.
InitConcurrent ==
    /\ dataset \in Datasets
    /\ archive = "complete"
    /\ extract_dir = TRUE
    /\ files = DatasetFiles
    /\ pc = "ready"
    /\ io = "none"
    /\ okDone = TRUE
    /\ movie_df = ReadMovies(dataset)
    /\ character_df = ReadCharacters(dataset)
    /\ plot_summaries = ReadPlots(dataset)
    /\ raised = NoError
    /\ last = NoCall
    /\ calls = NoCalls

InCall(op, args, at) == [op |-> op, args |-> args, at |-> at, out |-> NoOutcome]
Returned(call, out) == [call EXCEPT !.at = "done", !.out = out]
At(call, at) == [call EXCEPT !.at = at]

UnchangedByCall == <<dataset, fsVars, pc, io, okDone, plot_summaries, raised, last>>

\* movie_type(N): the checks of the argument and of the table.
MovieTypeCall ==
    /\ \E c \in Callers, N \in TopNs :
        /\ calls[c].at = "idle"
        /\ LET call == InCall("movie_type", <<N>>, "parse")
           IN  calls' = [calls EXCEPT ![c] =
                    IF N.type # "int"
                    THEN Returned(call, Raise("TypeError: N must be an integer."))
                    ELSE IF IsNone(movie_df) THEN Returned(call, Raise(NotLoaded))
                    ELSE call]
    /\ UNCHANGED <<UnchangedByCall, movie_df, character_df>>

\* self.movie_df["genres"] = self.movie_df["genres"].apply(ast.literal_eval)
MovieTypeParse ==
    /\ \E c \in Callers :
        /\ calls[c].op = "movie_type"
        /\ calls[c].at = "parse"
        /\ IF ApplyLiteralEvalOk(movie_df.rows)
           THEN /\ movie_df' = [movie_df EXCEPT !.rows = ApplyLiteralEval(movie_df.rows)]
                /\ calls' = [calls EXCEPT ![c] = At(@, "count")]
           ELSE /\ movie_df' = movie_df
                /\ calls' = [calls EXCEPT ![c] = Returned(@, Raise(MalformedNode))]
    /\ UNCHANGED <<UnchangedByCall, character_df>>

\* all_genres, Counter(all_genres), most_common(N) and the result frame.
MovieTypeCount ==
    /\ \E c \in Callers :
        /\ calls[c].op = "movie_type"
        /\ calls[c].at = "count"
        /\ LET rows == movie_df.rows
               all_genres == Flatten([i \in 1..Len(rows) |-> Values(rows[i].genres)])
               most_common_genres == MostCommon(Counter(all_genres), calls[c].args[1].v)
           IN  calls' = [calls EXCEPT ![c] =
                    Returned(@, Ok({"Movie_Type", "Count"}, most_common_genres))]
    /\ UNCHANGED <<UnchangedByCall, movie_df, character_df>>

\* ages(unit): the check of the table.
AgesCall ==
    /\ \E c \in Callers, unit \in UnitArgs :
        /\ calls[c].at = "idle"
        /\ LET call == InCall("ages", <<unit>>, "dropna")
           IN  calls' = [calls EXCEPT ![c] =
                    IF IsNone(character_df) THEN Returned(call, Raise(NotLoaded))
                    ELSE call]
    /\ UNCHANGED <<UnchangedByCall, movie_df, character_df>>

\* self.character_df = self.character_df.dropna(subset=["actor_date_of_birth"])
AgesDropna ==
    /\ \E c \in Callers :
        /\ calls[c].op = "ages"
        /\ calls[c].at = "dropna"
        /\ LET rows == character_df.rows
           IN  character_df' = [character_df EXCEPT !.rows =
                    Filter(rows, [i \in 1..Len(rows) |-> HasBirthDate(rows[i])])]
        /\ calls' = [calls EXCEPT ![c] = At(@, "birth_year")]
    /\ UNCHANGED <<UnchangedByCall, movie_df>>

\* self.character_df["birth_year"] = ...str[:4]
AgesBirthYear ==
    /\ \E c \in Callers :
        /\ calls[c].op = "ages"
        /\ calls[c].at = "birth_year"
        /\ character_df' = [character_df EXCEPT !.cols = @ \cup {"birth_year"}]
        /\ calls' = [calls EXCEPT ![c] = At(@, "birth_month")]
    /\ UNCHANGED <<UnchangedByCall, movie_df>>

\* self.character_df["birth_month"] = ...str[5:7], and the fallback of unit.
AgesBirthMonth ==
    /\ \E c \in Callers :
        /\ calls[c].op = "ages"
        /\ calls[c].at = "birth_month"
        /\ character_df' = [character_df EXCEPT !.cols = @ \cup {"birth_month"}]
        /\ calls' = [calls EXCEPT ![c] =
                At(@, IF Unit(calls[c].args[1]) = "Y" THEN "by_year" ELSE "strip")]
    /\ UNCHANGED <<UnchangedByCall, movie_df>>

\* The branch of unit "Y": the rows grouped by birth_year.
AgesByYear ==
    /\ \E c \in Callers :
        /\ calls[c].op = "ages"
        /\ calls[c].at = "by_year"
        /\ LET rows == character_df.rows
               sizes == GroupSize([i \in 1..Len(rows) |-> BirthYear(rows[i])])
               numeric == [k \in {t \in DOMAIN sizes : IsNumeric(t)} |-> sizes[k]]
           IN  calls' = [calls EXCEPT ![c] =
                    Returned(@, Ok({"Year", "Birth_Count"}, SortedCounts(numeric)))]
    /\ UNCHANGED <<UnchangedByCall, movie_df, character_df>>

\* self.character_df = self.character_df[birth_month.str.strip() != ""]
AgesStrip ==
    /\ \E c \in Callers :
        /\ calls[c].op = "ages"
        /\ calls[c].at = "strip"
        /\ LET rows == character_df.rows
           IN  character_df' = [character_df EXCEPT !.rows =
                    Filter(rows, [i \in 1..Len(rows) |-> HasBirthMonth(rows[i])])]
        /\ calls' = [calls EXCEPT ![c] = At(@, "by_month")]
    /\ UNCHANGED <<UnchangedByCall, movie_df>>

\* The branch of unit "M": the rows grouped by birth_month, the keys to int.
AgesByMonth ==
    /\ \E c \in Callers :
        /\ calls[c].op = "ages"
        /\ calls[c].at = "by_month"
        /\ LET rows == character_df.rows
               sizes == GroupSize([i \in 1..Len(rows) |-> BirthMonth(rows[i])])
           IN  calls' = [calls EXCEPT ![c] =
                    IF \E k \in DOMAIN sizes : ~CanInt(k)
                    THEN Returned(@, Raise(InvalidLiteral))
                    ELSE Returned(@, Ok({"Month", "Birth_Count"}, SortedCounts(sizes)))]
    /\ UNCHANGED <<UnchangedByCall, movie_df, character_df>>

NextConcurrent ==
    \/ MovieTypeCall
    \/ MovieTypeParse
    \/ MovieTypeCount
    \/ AgesCall
    \/ AgesDropna
    \/ AgesBirthYear
    \/ AgesBirthMonth
    \/ AgesByYear
    \/ AgesStrip
    \/ AgesByMonth

SpecConcurrent == InitConcurrent /\ [][NextConcurrent]_vars

\* ------------------------------------------------------------- properties

\* C1: a setup run transfers over the network only if the archive file is absent
\* and decompresses only if the extraction directory is absent; once a run has
\* completed, no later step transfers or decompresses, and once the archive
\* file exists, whatever it holds, nothing downloads again.
C1_AcquisitionIdempotent ==
    [][/\ io' = "transfer" => (archive = "absent" /\ ~okDone)
       /\ io' = "decompress" => (~extract_dir /\ ~okDone)]_vars

\* A later run, after a completed one, has passed both checks and is about to
\* load, having done neither.
C1_Witness == okDone /\ pc = "load" /\ io = "none"

IsIntCall == last.op = "movie_type" /\ last.args[1].type = "int"

\* C2: movie_type(top_n) called twice in succession with the same top_n
\* succeeds both times and gives identical results.
C2_MovieTypeRepeatable ==
    (IsIntCall /\ last.again) =>
        /\ last.before.status = "ok"
        /\ last.out.status = "ok"
        /\ last.out = last.before

\* What the latest call gives on a freshly loaded instance.
FreshOutcome ==
    CASE last.op = "movie_type" -> movie_type(ReadMovies(dataset), last.args[1]).out
      [] last.op = "actor_count" -> actor_count(ReadCharacters(dataset)).out
      [] last.op = "actor_distributions" ->
            actor_distributions(ReadCharacters(dataset),
                                last.args[1], last.args[2], last.args[3]).out
      [] last.op = "releases" -> releases(ReadMovies(dataset), last.args[1]).out
      [] last.op = "ages" -> ages(ReadCharacters(dataset), last.args[1]).out
      [] OTHER -> NoOutcome

\* C3: no query depends on call order: a query called after other query calls
\* gives what it gives on a freshly loaded instance.
C3_OrderIndependent == (last.op # "none" /\ ~last.again) => last.out = FreshOutcome

\* C4: actor_count(), actor_distributions(gender, min, max), releases() without
\* a genre, ages("Y") and ages("M"), called twice in a row with the same
\* arguments, give the same output both times.
C4_TwiceInARowSame ==
    (/\ last.again
     /\ \/ last.op \in {"actor_count", "actor_distributions"}
        \/ last.op = "releases" /\ IsNa(last.args[1])
        \/ last.op = "ages" /\ last.args[1] \in {"Y", "M"})
    => last.out = last.before

\* ages("M") a second time, the first having dropped rows from the stored table.
C4_Witness ==
    /\ last.again
    /\ last.op = "ages"
    /\ last.args[1] = "M"
    /\ last.out.status = "ok"
    /\ Len(last.out.rows) > 0
    /\ Len(character_df.rows) < Len(dataset.characters)

\* A movie row as the file gave it, whatever form its genres cell has taken.
RawMovieRow(r) == [release_date |-> r.release_date, genres |-> r.genres.items]
RawMovieRows(rows) == [i \in 1..Len(rows) |-> RawMovieRow(rows[i])]

\* C5: after load no query removes or changes a row of the movie table or of the
\* character table: the instance holds the rows it loaded.
C5_RowsImmutable ==
    pc = "ready" =>
        /\ RawMovieRows(movie_df.rows) = RawMovieRows(dataset.movies)
        /\ character_df.rows = dataset.characters

\* The genre display names of the movie table, row by row.
AllNames(rows) ==
    Flatten([i \in 1..Len(rows) |->
                [j \in 1..Len(rows[i].genres.items) |-> rows[i].genres.items[j].name]])
Occurrences(list, x) == Cardinality({i \in 1..Len(list) : list[i] = x})
FirstAt(list, x) == CHOOSE i \in 1..Len(list) : list[i] = x /\ \A j \in 1..(i - 1) : list[j] # x

\* C6: for every integer top_n >= 1 on a loaded instance, movie_type(top_n)
\* returns at most top_n (name, count) rows; each count is the number of
\* occurrences of the name over all movie rows; counts do not increase; names of
\* equal count come in the order in which they are first met; no name left out
\* has a higher count than one returned.
C6_MovieTypeTopN ==
    (IsIntCall /\ last.args[1].v >= 1) =>
        LET names == AllNames(movie_df.rows)
            rows == last.out.rows
            returned == {rows[i][1] : i \in 1..Len(rows)}
        IN  /\ last.out.status = "ok"
            /\ Len(rows) <= last.args[1].v
            /\ \A i \in 1..Len(rows) :
                /\ rows[i][1] \in Range(names)
                /\ rows[i][2] = Occurrences(names, rows[i][1])
            /\ \A i, j \in 1..Len(rows) :
                i < j => \/ rows[i][2] > rows[j][2]
                         \/ /\ rows[i][2] = rows[j][2]
                            /\ FirstAt(names, rows[i][1]) < FirstAt(names, rows[j][1])
            /\ \A x \in Range(names) \ returned :
                \A i \in 1..Len(rows) : Occurrences(names, x) <= rows[i][2]

\* C7: movie_type(top_n) with a top_n that is not an integer raises the
\* TypeError and leaves the movie table as it was; with an integer top_n <= 0
\* it raises nothing and returns no rows.
C7_MovieTypeArgument ==
    [][last'.op = "movie_type" =>
        /\ last'.args[1].type # "int" =>
            /\ last'.out = Raise("TypeError: N must be an integer.")
            /\ movie_df' = movie_df
        /\ (last'.args[1].type = "int" /\ last'.args[1].v <= 0) =>
            /\ last'.out.status = "ok"
            /\ last'.out.rows = <<>>]_vars

\* The distinct actor names of a movie id in the character rows.
NamesOf(rows, id) ==
    {rows[i].actor_name : i \in {j \in 1..Len(rows) : rows[j].wikipedia_movie_id = id}}
        \ {NaN}
RECURSIVE SumOfCounts(_)
SumOfCounts(rows) == IF rows = <<>> THEN 0 ELSE Head(rows)[2] + SumOfCounts(Tail(rows))

\* C8: actor_count() returns one (k, count) row per number k of distinct actor
\* names that some movie id of the character table has, count being the number
\* of movie ids with exactly k distinct names (a name repeated within a movie
\* counted once), in strictly ascending k; the counts sum to the number of
\* movie ids with at least one character row.
C8_ActorCountHistogram ==
    last.op = "actor_count" =>
        LET table == character_df.rows
            ids == {table[i].wikipedia_movie_id : i \in 1..Len(table)}
            rows == last.out.rows
        IN  /\ last.out.status = "ok"
            /\ {rows[i][1] : i \in 1..Len(rows)}
                    = {Cardinality(NamesOf(table, id)) : id \in ids}
            /\ \A i \in 1..Len(rows) :
                rows[i][2] = Cardinality({id \in ids :
                                Cardinality(NamesOf(table, id)) = rows[i][1]})
            /\ \A i, j \in 1..Len(rows) : i < j => rows[i][1] < rows[j][1]
            /\ SumOfCounts(rows) = Cardinality(ids)

\* One movie with the same actor in two character rows: one movie of one actor.
C8_Witness ==
    /\ last.op = "actor_count"
    /\ Len(character_df.rows) = 2
    /\ character_df.rows[1] = character_df.rows[2]
    /\ ~IsNa(character_df.rows[1].actor_name)
    /\ last.out.rows = <<<<1, 1>>>>

\* A call of actor_distributions with a text gender and numeric heights.
IsTypedCall ==
    /\ last.op = "actor_distributions"
    /\ last.args[1].type = "str"
    /\ last.args[2].type \in {"int", "float"}
    /\ last.args[3].type \in {"int", "float"}

\* The gender asked for is "All" or the gender of some row of the table.
GenderAccepted ==
    \/ last.args[1].s = "All"
    \/ \E i \in 1..Len(character_df.rows) :
            character_df.rows[i].actor_gender = Some(last.args[1].s)

\* The row is one the call asks for.
Asked(r) ==
    /\ r.actor_height_in_meters # NaN
    /\ last.args[2].v <= Val(r.actor_height_in_meters)
    /\ Val(r.actor_height_in_meters) <= last.args[3].v
    /\ last.args[1].s # "All" => r.actor_gender = Some(last.args[1].s)

\* C9: for an accepted gender g and heights min <= max,
\* actor_distributions(g, min, max) returns exactly the rows of the character
\* table with a height, min <= height <= max, and, unless g is "All", gender g;
\* it returns no row without a height, and the rows carry the columns of the
\* character schema.
C9_ActorDistributionsRows ==
    (IsTypedCall /\ last.args[2].v <= last.args[3].v /\ GenderAccepted) =>
        LET table == character_df.rows
            rows == last.out.rows
        IN  /\ last.out.status = "ok"
            /\ \A r \in Range(table) \cup Range(rows) :
                Occurrences(rows, r) = IF Asked(r) THEN Occurrences(table, r) ELSE 0
            /\ \A i \in 1..Len(rows) : rows[i].actor_height_in_meters # NaN
            /\ CharacterSchema \subseteq last.out.cols

\* A call for gender "F" that returns a row whose height is the lower bound and
\* leaves another row out.
C9_Witness ==
    /\ IsTypedCall
    /\ last.args[1].s = "F"
    /\ last.args[2].v < last.args[3].v
    /\ Len(character_df.rows) = 2
    /\ Len(last.out.rows) = 1
    /\ last.out.rows[1].actor_height_in_meters = Some(last.args[2].v)

\* C10: with a text gender and numeric heights, actor_distributions raises the
\* range error if and only if min_height > max_height; min_height = max_height
\* is accepted and gives the rows of that height; a gender that is not text or
\* a height that is not a number raises the TypeError; a call that raises
\* returns no rows.
C10_ActorDistributionsErrors ==
    last.op = "actor_distributions" =>
        /\ last.args[1].type # "str" =>
                last.out = Raise("TypeError: Gender must be a string.")
        /\ (/\ last.args[1].type = "str"
            /\ \/ last.args[2].type \notin {"int", "float"}
               \/ last.args[3].type \notin {"int", "float"}) =>
                last.out = Raise("TypeError: Height values must be numerical.")
        /\ IsTypedCall =>
                (last.out = Raise("ValueError: min_height must be less than max_height.")
                    <=> last.args[2].v > last.args[3].v)
        /\ (IsTypedCall /\ last.args[2].v = last.args[3].v /\ GenderAccepted) =>
                /\ last.out.status = "ok"
                /\ \A r \in Range(character_df.rows) : Asked(r) => r \in Range(last.out.rows)
                /\ \A i \in 1..Len(last.out.rows) :
                    last.out.rows[i].actor_height_in_meters = Some(last.args[2].v)
        /\ last.out.status = "error" => last.out.rows = <<>>

\* A call with min_height = max_height that returns a row of that height.
C10_Witness ==
    /\ IsTypedCall
    /\ last.args[2].v = last.args[3].v
    /\ last.out.status = "ok"
    /\ Len(last.out.rows) > 0

\* The genders present in the character table the instance holds.
GendersPresent ==
    {Val(character_df.rows[i].actor_gender) :
        i \in {j \in 1..Len(character_df.rows) : character_df.rows[j].actor_gender # NaN}}

\* C11: with a text gender and numeric heights min <= max, actor_distributions
\* accepts the gender exactly when it is "All" or a gender present in the
\* character table at the call; any other text raises the ValueError whose
\* message lists "All" and the genders present.
C11_GenderAcceptedSet ==
    (IsTypedCall /\ last.args[2].v <= last.args[3].v) =>
        /\ last.out.status = "ok" <=> last.args[1].s \in {"All"} \cup GendersPresent
        /\ last.out.status # "ok" =>
            /\ last.out.error = "ValueError: Invalid gender. Accepted values"
            /\ Range(last.out.detail) = {"All"} \cup GendersPresent
            /\ last.out.rows = <<>>

\* Gender "M" asked of a table in which "F" is the only gender.
C11_Witness ==
    /\ IsTypedCall
    /\ last.args[2].v <= last.args[3].v
    /\ last.args[1].s = "M"
    /\ GendersPresent = {"F"}
    /\ last.out.status = "error"
    /\ last.out.detail = <<"All", "F">>

\* The display names of the genre mapping of a movie row.
NamesOfRow(r) == {r.genres.items[j].name : j \in 1..Len(r.genres.items)}

\* C12: releases(genre=G) raises the invalid-genre ValueError when G is the
\* display name of no movie's genre mapping; otherwise it succeeds and the
\* counts of the (year, count) rows it returns sum to the number of movies
\* tagged G that have a release date.
C12_ReleasesByGenre ==
    (last.op = "releases" /\ last.args[1] # NaN) =>
        LET G == Val(last.args[1])
            table == movie_df.rows
            tagged == {i \in 1..Len(table) :
                        table[i].release_date # NaN /\ G \in NamesOfRow(table[i])}
        IN  IF \A i \in 1..Len(table) : G \notin NamesOfRow(table[i])
            THEN last.out.error = "ValueError: Invalid genre. Choose from"
            ELSE /\ last.out.status = "ok"
                 /\ SumOfCounts(last.out.rows) = Cardinality(tagged)

\* A date text that begins with four digits, and the integer they write.
StartsWithYear(date) == Len(date) >= 4 /\ \A i \in 1..4 : date[i] \in Digits
YearOf(date) ==
    1000 * DigitVal(date[1]) + 100 * DigitVal(date[2])
        + 10 * DigitVal(date[3]) + DigitVal(date[4])

\* The rows of a table that have the date column, in the table's order.
RECURSIVE Dated(_, _)
Dated(table, HasDate) ==
    IF table = <<>> THEN <<>>
    ELSE IF HasDate[1] THEN <<Head(table)>> \o Dated(Tail(table), Tail(HasDate))
    ELSE Dated(Tail(table), Tail(HasDate))

MoviesDated(table) ==
    Dated(table, [i \in 1..Len(table) |-> table[i].release_date # NaN])

\* C13: releases() without a genre, on a movie table whose present release
\* dates all begin with a four-digit year, leaves the stored table without the
\* rows that lack a release date and returns one (release_year, Movie_Count)
\* row per distinct year of the remaining rows, the year being the integer of
\* the first four characters, in strictly ascending year order, each count being
\* the number of rows of the year; the counts sum to the number of rows with a
\* release date.
C13_ReleasesPerYear ==
    [][(/\ last'.op = "releases"
        /\ last'.args[1] = NaN
        /\ \A i \in 1..Len(movie_df.rows) :
            movie_df.rows[i].release_date # NaN
                => StartsWithYear(Val(movie_df.rows[i].release_date)))
       => LET dated == MoviesDated(movie_df.rows)
              rows == last'.out.rows
          IN  /\ last'.out.status = "ok"
              /\ movie_df'.rows = dated
              /\ {rows[i][1] : i \in 1..Len(rows)}
                    = {YearOf(Val(dated[i].release_date)) : i \in 1..Len(dated)}
              /\ \A i \in 1..Len(rows) :
                    rows[i][2] = Cardinality({j \in 1..Len(dated) :
                                    YearOf(Val(dated[j].release_date)) = rows[i][1]})
              /\ \A i, j \in 1..Len(rows) : i < j => rows[i][1] < rows[j][1]
              /\ SumOfCounts(rows) = Len(dated)]_vars

\* Two movies, of 2001 and of 1999 in the file's order, counted in year order.
C13_Witness ==
    /\ last.op = "releases"
    /\ last.args[1] = NaN
    /\ Len(dataset.movies) = 2
    /\ dataset.movies[1].release_date = Some(Date_2001)
    /\ last.out.rows = <<<<1999, 1>>, <<2001, 1>>>>

\* A movie row with a release date that does not begin with a four-digit year.
Malformed(r) == r.release_date # NaN /\ ~StartsWithYear(Val(r.release_date))

\* C14: releases() on a movie table with a present release date whose first
\* four characters are not an integer raises the conversion ValueError and
\* returns no rows; the row is neither counted under some year nor removed
\* from the stored table.
C14_MalformedDateFails ==
    [][(/\ last'.op = "releases"
        /\ last'.args[1] = NaN
        /\ \E i \in 1..Len(movie_df.rows) : Malformed(movie_df.rows[i]))
       => /\ last'.out.status = "error"
          /\ last'.out.error = "ValueError: invalid literal for int() with base 10"
          /\ last'.out.rows = <<>>
          /\ movie_df'.rows = MoviesDated(movie_df.rows)]_vars

\* releases() has failed on a table of a well-formed and a malformed date.
C14_Witness ==
    /\ last.op = "releases"
    /\ last.args[1] = NaN
    /\ last.out.status = "error"
    /\ Len(movie_df.rows) = 2
    /\ \E i \in 1..2 : Malformed(movie_df.rows[i])
    /\ \E i \in 1..2 : ~Malformed(movie_df.rows[i])

\* C15: ages(unit) with a unit other than "Y" and "M" raises nothing and returns
\* what ages("Y") returns on the same state of the instance, the key column
\* being "Year".
C15_AgesUnitFallback ==
    [][(last'.op = "ages" /\ last'.args[1] \notin {"Y", "M"})
       => /\ last'.out.status = "ok"
          /\ "Year" \in last'.out.cols
          /\ last'.out = ages(character_df, "Y").out
          /\ character_df' = ages(character_df, "Y").df]_vars

\* ages("X") has returned a count per year.
C15_Witness ==
    /\ last.op = "ages"
    /\ last.args[1] = "X"
    /\ last.out.status = "ok"
    /\ "Year" \in last.out.cols
    /\ Len(last.out.rows) > 0

\* The rows of the character table with a birth date, in the table's order.
Born(table) ==
    Dated(table, [i \in 1..Len(table) |-> table[i].actor_date_of_birth # NaN])

\* Characters 5-6 of a date text are two digits; the integer they write.
HasMonthDigits(date) == Len(date) >= 7 /\ date[6] \in Digits /\ date[7] \in Digits
MonthOf(date) == 10 * DigitVal(date[6]) + DigitVal(date[7])

\* The (key, count) rows are those of the keys, counted over the dates and in
\* ascending key order.
CountsPerKey(rows, keys, KeyOfDate, dates) ==
    /\ {rows[i][1] : i \in 1..Len(rows)} = keys
    /\ \A i \in 1..Len(rows) :
        rows[i][2] = Cardinality({j \in 1..Len(dates) : KeyOfDate[j] = rows[i][1]})
    /\ \A i, j \in 1..Len(rows) : i < j => rows[i][1] < rows[j][1]

C17_LoadMissingFile ==
    /\ pc = "ready" => DatasetFiles \subseteq files
    /\ raised.stage = "load" =>
        /\ raised.error = "FileNotFoundError"
        /\ raised.names = DatasetFiles \ files
        /\ movie_df = None
        /\ character_df = None
        /\ plot_summaries = None

\* C18: a query called while the table it reads is None raises "Dataset not
\* loaded." and returns nothing: movie_type (of an integer) and releases for the
\* movie table; actor_count, ages and actor_distributions (of a text gender and
\* numeric heights min <= max) for the character table.
C18_NotLoaded ==
    LET reads_movies ==
            \/ last.op = "movie_type" /\ last.args[1].type = "int"
            \/ last.op = "releases"
        reads_characters ==
            \/ last.op \in {"actor_count", "ages"}
            \/ IsTypedCall /\ last.args[2].v <= last.args[3].v
    IN  ((reads_movies /\ movie_df = None) \/ (reads_characters /\ character_df = None))
            => /\ last.out.status = "error"
               /\ last.out.error = "ValueError: Dataset not loaded."
               /\ last.out.rows = <<>>

\* actor_distributions with valid arguments has run without a character table,
\* the movie table being loaded.
C18_Witness ==
    /\ IsTypedCall
    /\ last.args[2].v <= last.args[3].v
    /\ character_df = None
    /\ movie_df # None
    /\ last.out.error = "ValueError: Dataset not loaded."

\* The steps of one construction, in their order.
StageOrder ==
    {<<"start", "download_check">>, <<"ready", "download_check">>,
     <<"failed", "download_check">>,
     <<"download_check", "extract_check">>, <<"download_check", "failed">>,
     <<"extract_check", "load">>, <<"extract_check", "failed">>,
     <<"load", "ready">>, <<"load", "failed">>}

AllLoaded == movie_df.loaded /\ character_df.loaded /\ plot_summaries.loaded

\* C19: within an instance the download check, the extraction check and the
\* load come in this order; a query runs only on an instance whose setup has
\* completed without an exception; the tables are loaded by the load step and
\* by no query or later step, and all three are present in every state in
\* which a query can run.
C19_StageOrdering ==
    [][/\ pc' # pc => <<pc, pc'>> \in StageOrder
       /\ (last' # last /\ last'.op # "none") =>
            /\ pc = "ready"
            /\ raised = NoError
            /\ AllLoaded
       /\ pc' = "ready" =>
            /\ AllLoaded'
            /\ raised' = NoError
            /\ archive' # "absent" /\ extract_dir' /\ DatasetFiles \subseteq files'
       /\ (~movie_df.loaded /\ movie_df'.loaded) => (pc = "load" /\ pc' \in {"ready", "failed"})
       /\ (~character_df.loaded /\ character_df'.loaded) => pc = "load"
       /\ (~plot_summaries.loaded /\ plot_summaries'.loaded) => pc = "load"
       /\ (pc = "ready" /\ pc' = "ready") =>
            /\ plot_summaries' = plot_summaries
            /\ Len(movie_df'.rows) <= Len(movie_df.rows)
            /\ Len(character_df'.rows) <= Len(character_df.rows)]_vars

\* A query has run on an instance whose setup went through the three steps.
C19_Witness ==
    /\ pc = "ready"
    /\ last.op = "actor_count"
    /\ last.out.status = "ok"
    /\ AllLoaded
    /\ io = "none"

\* C20: over any sequence of setup runs, failing ones included, the archive
\* file exists only if the download completed, and the extraction directory
\* exists only if the archive was extracted with its three files.
C20_MarkerInvariant ==
    /\ archive # "absent" => archive = "complete"
    /\ extract_dir => (archive = "complete" /\ DatasetFiles \subseteq files)

\* C21: a failure of the download or of the extraction ends the setup run: a
\* run whose download raised goes on to no extraction and no load, a run whose
\* extraction raised goes on to no load, and a run downloads at most once and
\* extracts at most once (each only at its check, which a run passes once).
C21_NoRetry ==
    [][/\ io' = "transfer" =>
            /\ pc = "download_check"
            /\ pc' \in {"extract_check", "failed"}
            /\ pc' = "failed" <=> raised' = DownloadError
       /\ io' = "decompress" =>
            /\ pc = "extract_check"
            /\ pc' \in {"load", "failed"}
            /\ pc' = "failed" <=> raised' = ExtractError
       /\ pc' = "download_check" => (pc \in {"start", "ready", "failed"} /\ raised' = NoError)
       /\ pc' = "extract_check" => (pc = "download_check" /\ raised' = NoError)
       /\ pc' = "load" => (pc = "extract_check" /\ raised' = NoError)
       /\ raised # NoError =>
            /\ pc = "failed"
            /\ io' = "none"
            /\ pc' = "download_check"
            /\ movie_df' = None /\ character_df' = None /\ plot_summaries' = None
            /\ UNCHANGED <<archive, extract_dir, files>>]_vars

\* A run has ended in a failed download that left a partial archive file; it
\* has extracted and loaded nothing.
C21_Witness ==
    /\ pc = "failed"
    /\ raised = DownloadError
    /\ io = "transfer"
    /\ archive = "partial"
    /\ ~extract_dir
    /\ movie_df = None

\* What the call gives when it is the only call on a freshly loaded instance.
Alone(call) ==
    IF call.op = "movie_type" THEN movie_type(ReadMovies(dataset), call.args[1]).out
    ELSE ages(ReadCharacters(dataset), call.args[1]).out

\* C22: calls made by several callers on the one shared instance are safe:
\* however their steps interleave, each call that has returned gave what the
\* same call gives when run alone on a freshly loaded instance, and so none
\* failed on a change another call made to a shared table.
C22_ConcurrentCallsSafe ==
    \A c \in Callers : calls[c].at = "done" => calls[c].out = Alone(calls[c])

\* C23: a query that fails leaves the stored tables as they were before the
\* call: a call of releases with a genre that is not known, and any call that
\* fails on its arguments or on a table that is not loaded, changes no row and
\* no column of the movie table or of the character table.
C23_FailedQueryLeavesTables ==
    [][(last'.op # "none" /\ last'.out.status = "error") =>
            (movie_df' = movie_df /\ character_df' = character_df)]_vars

\* C24: actor_count and actor_distributions are read-only: whether the call
\* returns or raises, the movie table, the character table and the plot
\* summaries of the instance are after it what they were before it, rows,
\* columns and cells.
C24_ReadOnlyQueries ==
    [][last'.op \in {"actor_count", "actor_distributions"} =>
            UNCHANGED <<movie_df, character_df, plot_summaries>>]_vars

\* actor_distributions has returned fewer rows than the character table holds,
\* and the tables are as they were loaded.
C24_Witness ==
    /\ last.op = "actor_distributions"
    /\ last.out.status = "ok"
    /\ Len(last.out.rows) < Len(character_df.rows)
    /\ movie_df = ReadMovies(dataset)
    /\ character_df = ReadCharacters(dataset)
    /\ plot_summaries = ReadPlots(dataset)


====
